---------------------------- MODULE Spec2Model ----------------------------
(***************************************************************************)
(* Quickhull (src/src/lib.rs): ConvexHull::try_new, update, add_points,    *)
(* remove_unused_points, vertices_indices and their helpers.               *)
(*                                                                         *)
(* Points are triples of small integers.  robust::orient3d returns the     *)
(* sign-exact determinant, which on such points is the integer determinant *)
(* itself, so position_from_face and everything built on it is computed in *)
(* the integers.  init_tetrahedron_indices divides by square roots; its    *)
(* arithmetic is modelled by a rounded binary floating point (section f64).*)
(* Point indices and face keys are 0-based as in the code; the i-th point  *)
(* of a sequence pts is pts[i + 1].                                        *)
(*                                                                         *)
(* The code's HashSet<usize> values (visible set, assigned set, the vertex *)
(* sets intersected for a ridge) are iterated in an order that depends on  *)
(* the per-process random hash keys; an iteration order is chosen here by  *)
(* a seed drawn afresh in every iteration of the main loop.                *)
(***************************************************************************)
EXTENDS Integers, Sequences, FiniteSets, TLC

\* ------------------------------------------------------------- bounds
\* Longest point slice handed to try_new.
MaxPts == 5
\* Largest iteration cap k tried for max_iter = Some(k).
MaxCap == 1
\* Number of add_points calls made on one hull.
MaxAdds == 1
\* Number of hash-set iteration orders tried.
NumSeeds == 2
\* Bits of an f64 mantissa kept by the model (53 in the code).
MantissaBits == 11

\* The coordinates inputs are drawn from.
Pool ==
    { <<0, 0, 0>>, <<2, 0, 0>>, <<0, 2, 0>>, <<0, 0, 2>>, <<2, 2, 0>> }

\* Whole point clouds tried besides the sequences over Pool: the octahedron and
\* the cube of the test suite, the octahedron with its centre, four points on
\* a line and four in a plane, both oblique to the axes.
Octahedron ==
    << <<1, 0, 0>>, <<0, 1, 0>>, <<0, 0, 1>>, <<-1, 0, 0>>, <<0, -1, 0>>, <<0, 0, -1>> >>

Cube ==
    << <<1, 1, 1>>, <<1, 1, -1>>, <<1, -1, 1>>, <<1, -1, -1>>,
       <<-1, 1, 1>>, <<-1, 1, -1>>, <<-1, -1, 1>>, <<-1, -1, -1>> >>

\* The cube [0, 2]^3 of cube_volume_test.
Cube02 ==
    << <<2, 2, 2>>, <<2, 2, 0>>, <<2, 0, 2>>, <<2, 0, 0>>,
       <<0, 2, 2>>, <<0, 2, 0>>, <<0, 0, 2>>, <<0, 0, 0>> >>

CentredOctahedron == << <<0, 0, 0>> >> \o Octahedron

ObliqueLine == << <<0, 0, 0>>, <<0, 2, 3>>, <<0, 4, 6>>, <<0, 6, 9>> >>

ObliquePlane == << <<0, 2, 0>>, <<0, 0, 0>>, <<1, 2, 3>>, <<1, 3, 3>> >>

\* A tetrahedron found by init_tetrahedron (indices 1, 0, 2, 3) and two points
\* beyond its edge 0-1, the farther one at the lower index: each is strictly in
\* front of two of the starting faces.
BeyondEdge ==
    << <<-3, 0, 0>>, <<3, 0, 0>>, <<0, 3, 0>>, <<0, 0, 3>>, <<0, -2, -2>>, <<0, -1, -1>> >>

Shapes ==
    { Octahedron, Cube, Cube02, CentredOctahedron, ObliqueLine, ObliquePlane,
      BeyondEdge }

\* The point batches handed to add_points.
MorePool == { <<>>, << <<2, 0, 0>> >>, << <<2, 2, 2>> >>, << <<1, 1, 1>> >> }

\* ------------------------------------------------------------ vectors
Sub(a, b) == << a[1] - b[1], a[2] - b[2], a[3] - b[3] >>

Neg(a) == << 0 - a[1], 0 - a[2], 0 - a[3] >>

Dot(a, b) == a[1] * b[1] + a[2] * b[2] + a[3] * b[3]

Cross(a, b) ==
    << a[2] * b[3] - a[3] * b[2],
       a[3] * b[1] - a[1] * b[3],
       a[1] * b[2] - a[2] * b[1] >>

Abs(x) == IF x < 0 THEN 0 - x ELSE x

\* robust::orient3d: the determinant of the rows a-d, b-d, c-d.
orient3d(a, b, c, d) == Dot(Sub(a, d), Cross(Sub(b, d), Sub(c, d)))

Pt(pts, i) == pts[i + 1]

InRange(pts, i) == i >= 0 /\ i < Len(pts)

triangle_normal(a, b, c) == Cross(Sub(b, a), Sub(c, a))

position_from_face(pts, face, i) ==
    0 - orient3d(Pt(pts, face.indices[1]), Pt(pts, face.indices[2]),
                 Pt(pts, face.indices[3]), Pt(pts, i))

from_triangle(pts, idx) ==
    LET normal == triangle_normal(Pt(pts, idx[1]), Pt(pts, idx[2]), Pt(pts, idx[3]))
    IN  [ indices |-> idx,
          outside_points |-> <<>>,
          neighbor_faces |-> <<>>,
          normal |-> normal,
          distance_from_origin |-> Dot(normal, Pt(pts, idx[1])) ]

\* Flip without the flip.
NoFlip(face) == face

\* face.indices.swap(0, 1) with the normal and the offset negated.
Flip(face) ==
    [ face EXCEPT !.indices = << face.indices[2], face.indices[1], face.indices[3] >>,
                  !.normal = Neg(face.normal),
                  !.distance_from_origin = 0 - face.distance_from_origin ]

\* ------------------------------------------------------ sequences, sets
Range(s) == { s[i] : i \in DOMAIN s }

RECURSIVE SortedSeq(_)
SortedSeq(S) ==
    IF S = {} THEN <<>>
    ELSE LET m == CHOOSE x \in S : \A y \in S : x <= y
         IN  <<m>> \o SortedSeq(S \ {m})

Reverse(s) == [ i \in 1..Len(s) |-> s[Len(s) + 1 - i] ]

Rotate(s, k) ==
    IF Len(s) = 0 THEN s
    ELSE [ i \in 1..Len(s) |-> s[((i - 1 + k) % Len(s)) + 1] ]

\* The order in which a HashSet holding S is iterated under hash seed `seed`:
\* the ascending order rotated by seed \div 2, reversed when seed is odd.
HashOrder(S, seed) ==
    LET r == Rotate(SortedSeq(S), seed \div 2)
    IN  IF seed % 2 = 1 THEN Reverse(r) ELSE r

\* ------------------------------------------------------------------- f64
\* The simplex search normalizes vectors, so its values are rounded.  An f64 is
\* modelled as << m, e >> standing for m * 2^e, with |m| a MantissaBits-bit
\* number (or << 0, 0 >>), and every operation rounds its exact result to the
\* nearest such number, ties to the even mantissa, as IEEE 754 does with 53
\* bits.  Exponents are unbounded: no value here is near overflow or underflow.
FZero == << 0, 0 >>

RECURSIVE BitLen(_)
BitLen(m) == IF m = 0 THEN 0 ELSE 1 + BitLen(m \div 2)

RoundMagnitude(a, e, sh) ==
    LET q == a \div (2 ^ sh)
        r == a % (2 ^ sh)
        up == r > 2 ^ (sh - 1) \/ (r = 2 ^ (sh - 1) /\ q % 2 = 1)
    IN  IF up /\ q + 1 = 2 ^ MantissaBits
        THEN << 2 ^ (MantissaBits - 1), e + sh + 1 >>
        ELSE << IF up THEN q + 1 ELSE q, e + sh >>

RoundBits(a, e, b) ==
    IF b <= MantissaBits
    THEN << a * 2 ^ (MantissaBits - b), e - (MantissaBits - b) >>
    ELSE RoundMagnitude(a, e, b - MantissaBits)

Signed(sign, f) == << sign * f[1], f[2] >>

\* The f64 nearest to m * 2^e.
FRound(m, e) ==
    IF m = 0 THEN FZero
    ELSE Signed(IF m < 0 THEN 0 - 1 ELSE 1, RoundBits(Abs(m), e, BitLen(Abs(m))))

FFromInt(k) == FRound(k, 0)

FNeg(a) == << 0 - a[1], a[2] >>

FAbs(a) == << Abs(a[1]), a[2] >>

FMul(a, b) == FRound(a[1] * b[1], a[2] + b[2])

\* a + b for a[2] >= b[2]; a b too small to reach a's last bit leaves a.
FAddOrdered(a, b) ==
    IF a[2] - b[2] > MantissaBits + 1 THEN a
    ELSE FRound(a[1] * 2 ^ (a[2] - b[2]) + b[1], b[2])

FAdd(a, b) ==
    IF a[1] = 0 THEN b
    ELSE IF b[1] = 0 THEN a
    ELSE IF a[2] >= b[2] THEN FAddOrdered(a, b) ELSE FAddOrdered(b, a)

FSub(a, b) == FAdd(a, FNeg(b))

\* a > b: rounding never changes the sign of a difference.
FGt(a, b) == FSub(a, b)[1] > 0

RECURSIVE ISqrtFrom(_, _, _)
ISqrtFrom(n, bit, r) ==
    IF bit = 0 THEN r
    ELSE ISqrtFrom(n, bit \div 2, IF (r + bit) * (r + bit) <= n THEN r + bit ELSE r)

\* The root of n with one more bit that tells an inexact root from an exact one.
StickyRoot(n, r) == 2 * r + (IF r * r = n THEN 0 ELSE 1)

SqrtScaled(m, e, t) ==
    FRound(StickyRoot(m * 2 ^ t, ISqrtFrom(m * 2 ^ t, 2 ^ 14, 0)), (e - t) \div 2 - 1)

FSqrt(a) ==
    IF a[1] = 0 THEN a
    ELSE SqrtScaled(a[1], a[2],
            IF (a[2] - (MantissaBits + 2)) % 2 = 0
            THEN MantissaBits + 2 ELSE MantissaBits + 3)

\* f64::recip, 1.0 / a, for a > 0.
FRecip(a) ==
    FRound(2 * ((2 ^ (2 * MantissaBits + 1)) \div a[1])
             + (IF (2 ^ (2 * MantissaBits + 1)) % a[1] = 0 THEN 0 ELSE 1),
           0 - (2 * MantissaBits + 1) - a[2] - 1)

\* a / b for b > 0.
FDiv(a, b) ==
    IF a[1] = 0 THEN FZero
    ELSE Signed(IF a[1] < 0 THEN 0 - 1 ELSE 1,
            FRound(2 * ((Abs(a[1]) * 2 ^ (MantissaBits + 2)) \div b[1])
                     + (IF (Abs(a[1]) * 2 ^ (MantissaBits + 2)) % b[1] = 0 THEN 0 ELSE 1),
                   a[2] - b[2] - (MantissaBits + 2) - 1))

\* glam's DVec3 operations, on triples of f64.
FVec(p) == << FFromInt(p[1]), FFromInt(p[2]), FFromInt(p[3]) >>

FDot(a, b) == FAdd(FAdd(FMul(a[1], b[1]), FMul(a[2], b[2])), FMul(a[3], b[3]))

FCross(a, b) ==
    << FSub(FMul(a[2], b[3]), FMul(b[2], a[3])),
       FSub(FMul(a[3], b[1]), FMul(b[3], a[1])),
       FSub(FMul(a[1], b[2]), FMul(b[1], a[2])) >>

FScale(a, k) == << FMul(a[1], k), FMul(a[2], k), FMul(a[3], k) >>

FVSub(a, b) == << FSub(a[1], b[1]), FSub(a[2], b[2]), FSub(a[3], b[3]) >>

\* self * (1.0 / self.length())
normalize(a) == FScale(a, FRecip(FSqrt(FDot(a, a))))

\* (normal - normal.dot(unit_01) * unit_01).normalize()
Perpendicular(normal, unit_01) ==
    normalize(FVSub(normal, FScale(unit_01, FDot(normal, unit_01))))

\* ----------------------------------------------------- compute_extremes
ExtremeStep(pts, a, i, st) ==
    LET v == Pt(pts, i)[a]
    IN  IF v < st.min THEN [ st EXCEPT !.min = v, !.minI = i ]
        ELSE IF v > st.max THEN [ st EXCEPT !.max = v, !.maxI = i ]
        ELSE st

RECURSIVE ExtremesFrom(_, _, _, _)
ExtremesFrom(pts, a, i, st) ==
    IF i >= Len(pts) THEN st
    ELSE ExtremesFrom(pts, a, i + 1, ExtremeStep(pts, a, i, st))

\* Per axis a: the running min and max and the indices that set them.
compute_extremes(pts) ==
    [ a \in 1..3 |->
        ExtremesFrom(pts, a, 1,
            [ min |-> Pt(pts, 0)[a], max |-> Pt(pts, 0)[a], minI |-> 0, maxI |-> 0 ]) ]

\* ---------------------------------------------- init_tetrahedron_indices
RECURSIVE MaxExtentFrom(_, _, _, _)
MaxExtentFrom(pts, ex, a, st) ==
    IF a > 3 THEN st
    ELSE LET extent == Pt(pts, ex[a].maxI)[a] - Pt(pts, ex[a].minI)[a]
         IN  MaxExtentFrom(pts, ex, a + 1,
                IF extent > st.max_extent
                THEN [ max_extent |-> extent, max_dimension_index |-> a ]
                ELSE st)

ThirdStep(pts, i0, i1, i, st, cross) ==
    IF /\ FGt(FDot(cross, cross), st.max_squared_distance)
       /\ Pt(pts, i) # Pt(pts, i0)
       /\ Pt(pts, i) # Pt(pts, i1)
    THEN [ max_squared_distance |-> FDot(cross, cross), index |-> i, normal |-> cross ]
    ELSE st

FourthStep(pts, i0, i1, i2, i, st, distance) ==
    IF /\ FGt(distance, st.max_distance)
       /\ Pt(pts, i) # Pt(pts, i0)
       /\ Pt(pts, i) # Pt(pts, i1)
       /\ Pt(pts, i) # Pt(pts, i2)
    THEN [ max_distance |-> distance, index |-> i ]
    ELSE st

\* The third vertex: the point farthest from the line through v0 and v1, by
\* the squared length of unit_01 x (p - v0) as f64 computes it.
RECURSIVE ThirdFrom(_, _, _, _, _, _)
ThirdFrom(pts, i0, i1, unit_01, i, st) ==
    IF i >= Len(pts) THEN st
    ELSE ThirdFrom(pts, i0, i1, unit_01, i + 1,
            ThirdStep(pts, i0, i1, i, st,
                      FCross(unit_01, FVec(Sub(Pt(pts, i), Pt(pts, i0))))))

\* The fourth vertex: the point farthest from the base triangle's plane along
\* the normal.
RECURSIVE FourthFrom(_, _, _, _, _, _, _, _)
FourthFrom(pts, i0, i1, i2, normal, d0, i, st) ==
    IF i >= Len(pts) THEN st
    ELSE FourthFrom(pts, i0, i1, i2, normal, d0, i + 1,
            FourthStep(pts, i0, i1, i2, i, st,
                       FAbs(FSub(FDot(FVec(Pt(pts, i)), normal), d0))))

\* normal.normalize(), then made perpendicular to unit_01 and normalized again.
BaseNormal(cross, unit_01) ==
    Perpendicular(normalize(cross), unit_01)

FourthOf(pts, i0, i1, third, normal) ==
    FourthFrom(pts, i0, i1, third.index, normal,
               FDot(FVec(Pt(pts, third.index)), normal), 0,
               [ max_distance |-> FZero, index |-> 0 ])

AfterFourth(i0, i1, third, fourth) ==
    IF fourth.max_distance = FZero THEN [ err |-> "Coplanar", indices |-> <<>> ]
    ELSE [ err |-> "", indices |-> << i0, i1, third.index, fourth.index >> ]

AfterThird(pts, i0, i1, unit_01, third) ==
    IF third.max_squared_distance = FZero THEN [ err |-> "Collinear", indices |-> <<>> ]
    ELSE AfterFourth(i0, i1, third,
            FourthOf(pts, i0, i1, third, BaseNormal(third.normal, unit_01)))

AfterFirstTwo(pts, i0, i1, unit_01) ==
    AfterThird(pts, i0, i1, unit_01,
        ThirdFrom(pts, i0, i1, unit_01, 0,
            [ max_squared_distance |-> FZero, index |-> 0,
              normal |-> << FZero, FZero, FZero >> ]))

AfterExtent(pts, ex, me) ==
    IF me.max_extent = 0 THEN [ err |-> "Coincident", indices |-> <<>> ]
    ELSE AfterFirstTwo(pts, ex[me.max_dimension_index].maxI,
                       ex[me.max_dimension_index].minI,
                       normalize(FVec(Sub(Pt(pts, ex[me.max_dimension_index].minI),
                                          Pt(pts, ex[me.max_dimension_index].maxI)))))

\* [err, indices]: the four simplex indices, or the degeneracy found first.
init_tetrahedron_indices(pts, ex) ==
    AfterExtent(pts, ex,
        MaxExtentFrom(pts, ex, 1, [ max_extent |-> 0, max_dimension_index |-> 1 ]))

\* ------------------------------------------------------ init_tetrahedron
\* The face left when position i_face of the four simplex indices is omitted,
\* turned so that the omitted point is not in front of it.
InitFace(pts, indices_set, i_face) ==
    LET face_indices ==
            SelectSeq([ j \in 1..4 |-> j ], LAMBDA j : j # i_face + 1)
        face == from_triangle(pts,
                    << indices_set[face_indices[1]], indices_set[face_indices[2]],
                       indices_set[face_indices[3]] >>)
        rem_point == indices_set[i_face + 1]
        pos == position_from_face(pts, face, rem_point)
    IN  IF pos > 0 THEN Flip(face) ELSE face

init_tetrahedron_faces(pts, indices_set) ==
    [ key \in 0..3 |->
        [ InitFace(pts, indices_set, key) EXCEPT
            !.neighbor_faces = SelectSeq(<<0, 1, 2, 3>>, LAMBDA k : k # key) ] ]

\* [err, faces]: the error of init_tetrahedron_indices, or the four linked faces.
TetrahedronOf(pts, r) ==
    IF r.err # "" THEN [ err |-> r.err, faces |-> << >> ]
    ELSE [ err |-> "", faces |-> init_tetrahedron_faces(pts, r.indices) ]

init_tetrahedron(pts) ==
    TetrahedronOf(pts, init_tetrahedron_indices(pts, compute_extremes(pts)))

\* ------------------------------------------------- update: before the loop
\* MaxOf that takes the number of elements for the largest one.
CountOf(S) == Cardinality(S) - 1

MaxOf(S) == CHOOSE x \in S : \A y \in S : y <= x

MinOf(S) == CHOOSE x \in S : \A y \in S : x <= y

FaceVertices(faces) == UNION { Range(faces[k].indices) : k \in DOMAIN faces }

\* SeedFrom with the range of the scan one short.
RECURSIVE SeedFromSkipsLast(_, _, _, _)
SeedFromSkipsLast(pts, face, assigned, i) ==
    IF i >= Len(pts) - 1 THEN <<>>
    ELSE IF i \in assigned THEN SeedFromSkipsLast(pts, face, assigned, i + 1)
    ELSE IF position_from_face(pts, face, i) > 0
    THEN << << i, position_from_face(pts, face, i) >> >>
         \o SeedFromSkipsLast(pts, face, assigned, i + 1)
    ELSE SeedFromSkipsLast(pts, face, assigned, i + 1)

\* The (index, position) entries pushed onto one face: every point that is not
\* assigned and is strictly in front of the face, in index order.
RECURSIVE SeedFrom(_, _, _, _)
SeedFrom(pts, face, assigned, i) ==
    IF i >= Len(pts) THEN <<>>
    ELSE IF i \in assigned THEN SeedFrom(pts, face, assigned, i + 1)
    ELSE LET pos == position_from_face(pts, face, i)
         IN  IF pos > 0
             THEN << << i, pos >> >> \o SeedFrom(pts, face, assigned, i + 1)
             ELSE SeedFrom(pts, face, assigned, i + 1)

\* The entries are pushed behind whatever the face's list already holds.
seed_outside_points(pts, faces, assigned) ==
    [ k \in DOMAIN faces |->
        [ faces[k] EXCEPT
            !.outside_points = @ \o SeedFrom(pts, faces[k], assigned, 0) ] ]

\* The faces with a non-empty conflict list; the loop takes the first in key order.
ConflictKeys(faces) == { k \in DOMAIN faces : faces[k].outside_points # <<>> }

\* ------------------------------------------------- initialize_visible_set
\* The depth-first search of the code: the stack is popped from its end, a key
\* is examined once, and a neighbour strictly in front of which the apex lies
\* joins the visible set and has its own neighbours pushed.
RECURSIVE VisibleDFS(_, _, _, _, _, _)
VisibleDFS(pts, faces, apex, neighbor_stack, visited_neighbor, visible_set) ==
    IF neighbor_stack = <<>> THEN visible_set
    ELSE LET neighbor_key == neighbor_stack[Len(neighbor_stack)]
             rest == SubSeq(neighbor_stack, 1, Len(neighbor_stack) - 1)
         IN  IF neighbor_key \in visited_neighbor
             THEN VisibleDFS(pts, faces, apex, rest, visited_neighbor, visible_set)
             ELSE IF position_from_face(pts, faces[neighbor_key], apex) > 0
             THEN VisibleDFS(pts, faces, apex,
                             rest \o faces[neighbor_key].neighbor_faces,
                             visited_neighbor \cup {neighbor_key},
                             visible_set \cup {neighbor_key})
             ELSE VisibleDFS(pts, faces, apex, rest,
                             visited_neighbor \cup {neighbor_key}, visible_set)

\* initialize_visible_set that returns the selected face alone.
initialize_visible_set_selected_only(pts, apex, faces, face_key) == { face_key }

initialize_visible_set(pts, apex, faces, face_key) ==
    VisibleDFS(pts, faces, apex, faces[face_key].neighbor_faces, {}, {face_key})

\* -------------------------------------------------------- compute_horizon
RoundOff(msg) == "RoundOffError: " \o msg

\* The ridges one visible face contributes, in the order of its neighbour list.
\* A ridge lists the vertices of the outside neighbour that the visible face
\* has too, in the iteration order of the neighbour's vertex set.
RECURSIVE RidgesFrom(_, _, _, _, _, _)
RidgesFrom(faces, visible_set, visible_key, n, horizon, seed) ==
    LET visible_face == faces[visible_key]
    IN  IF n > Len(visible_face.neighbor_faces) THEN [ err |-> "", horizon |-> horizon ]
        ELSE LET neighbor_key == visible_face.neighbor_faces[n]
                 points_of_unvisible_neighbor == Range(faces[neighbor_key].indices)
                 horizon_ridge ==
                     SelectSeq(HashOrder(points_of_unvisible_neighbor, seed),
                               LAMBDA p : p \in Range(visible_face.indices))
             IN  IF neighbor_key \in visible_set
                 THEN RidgesFrom(faces, visible_set, visible_key, n + 1, horizon, seed)
                 ELSE IF Cardinality(points_of_unvisible_neighbor) # 3
                 THEN [ err |-> RoundOff("number of unvisible face's vertices should be 3"),
                        horizon |-> horizon ]
                 ELSE IF Len(horizon_ridge) # 2
                 THEN [ err |-> RoundOff("number of ridge's vertices should be 2"),
                        horizon |-> horizon ]
                 ELSE RidgesFrom(faces, visible_set, visible_key, n + 1,
                                 Append(horizon, << horizon_ridge, neighbor_key >>), seed)

RECURSIVE HorizonFrom(_, _, _, _, _, _)
HorizonFrom(faces, visible_set, visible_seq, v, horizon, seed) ==
    IF v > Len(visible_seq)
    THEN IF Len(horizon) < 3
         THEN [ err |-> RoundOff("horizon len < 3"), horizon |-> horizon ]
         ELSE [ err |-> "", horizon |-> horizon ]
    ELSE IF Cardinality(Range(faces[visible_seq[v]].indices)) # 3
    THEN [ err |-> RoundOff("number of visible face's vertices should be 3"),
           horizon |-> horizon ]
    ELSE LET r == RidgesFrom(faces, visible_set, visible_seq[v], 1, horizon, seed)
         IN  IF r.err # "" THEN r
             ELSE HorizonFrom(faces, visible_set, visible_seq, v + 1, r.horizon, seed)

\* [err, horizon]: horizon is a sequence of <<ridge, outside neighbour key>>.
compute_horizon(visible_set, faces, seed) ==
    HorizonFrom(faces, visible_set, HashOrder(visible_set, seed), 1, <<>>, seed)

\* ------------------------------------------ update: one iteration's steps
\* Create the faces that connect the apex to the horizon ridges.  Each gets the
\* next key, lists its outside neighbour, and is listed by it.
RECURSIVE FanFrom(_, _, _, _, _)
FanFrom(pts, apex, horizon, h, st) ==
    IF h > Len(horizon) THEN st
    ELSE LET ridge == horizon[h][1]
             unvisible == horizon[h][2]
             new_key == st.face_add_count
             new_face == [ from_triangle(pts, << apex, ridge[1], ridge[2] >>)
                             EXCEPT !.neighbor_faces = << unvisible >> ]
             inserted ==
                 [ k \in DOMAIN st.faces \cup {new_key} |->
                     IF k = new_key THEN new_face ELSE st.faces[k] ]
         IN  FanFrom(pts, apex, horizon, h + 1,
                [ faces |-> [ inserted EXCEPT
                                ![unvisible].neighbor_faces = Append(@, new_key) ],
                  assigned |-> st.assigned \cup {apex, ridge[1], ridge[2]},
                  face_add_count |-> st.face_add_count + 1,
                  new_keys |-> Append(st.new_keys, new_key) ])

\* Two new faces are neighbours when they share exactly two point indices.
SharesRidge(face_a, face_b) ==
    Cardinality(Range(face_a.indices) \cap Range(face_b.indices)) = 2

RECURSIVE LinkPairs(_, _, _, _)
LinkPairs(faces, new_keys, a, b) ==
    IF b > Len(new_keys) THEN faces
    ELSE IF SharesRidge(faces[new_keys[a]], faces[new_keys[b]])
    THEN LinkPairs(
            [ faces EXCEPT
                ![new_keys[a]].neighbor_faces = Append(@, new_keys[b]),
                ![new_keys[b]].neighbor_faces = Append(@, new_keys[a]) ],
            new_keys, a, b + 1)
    ELSE LinkPairs(faces, new_keys, a, b + 1)

\* [err, faces]: face a is linked to the later new faces and then must have
\* three neighbours, before face a + 1 is looked at.
RECURSIVE LinkFrom(_, _, _)
LinkFrom(faces, new_keys, a) ==
    IF a > Len(new_keys) THEN [ err |-> "", faces |-> faces ]
    ELSE LET linked == LinkPairs(faces, new_keys, a, a + 1)
         IN  IF Len(linked[new_keys[a]].neighbor_faces) # 3
             THEN [ err |-> RoundOff("number of neighbors should be 3"), faces |-> linked ]
             ELSE LinkFrom(linked, new_keys, a + 1)

\* The assigned points, in iteration order, up to the first whose position
\* relative to the face is not zero: that point alone decides the orientation.
DecidingPoints(pts, face, assigned_seq) ==
    SelectSeq(assigned_seq, LAMBDA p : position_from_face(pts, face, p) # 0)

\* [err, faces]: each new face is flipped when the first assigned point off
\* its plane is in front of it; a face with every assigned point on its plane
\* is degenerate.
RECURSIVE OrientFrom(_, _, _, _, _)
OrientFrom(pts, faces, assigned_seq, new_keys, n) ==
    IF n > Len(new_keys) THEN [ err |-> "", faces |-> faces ]
    ELSE LET new_face == faces[new_keys[n]]
             deciding == DecidingPoints(pts, new_face, assigned_seq)
         IN  IF deciding = <<>> THEN [ err |-> "Degenerated", faces |-> faces ]
             ELSE IF position_from_face(pts, new_face, deciding[1]) > 0
             THEN OrientFrom(pts, [ faces EXCEPT ![new_keys[n]] = Flip(new_face) ],
                             assigned_seq, new_keys, n + 1)
             ELSE OrientFrom(pts, faces, assigned_seq, new_keys, n + 1)

\* The point indices on the conflict lists of the visible faces, in the order
\* the lists are walked.
RECURSIVE OrphanIndices(_, _, _)
OrphanIndices(faces, visible_seq, v) ==
    IF v > Len(visible_seq) THEN <<>>
    ELSE [ j \in 1..Len(faces[visible_seq[v]].outside_points) |->
             faces[visible_seq[v]].outside_points[j][1] ]
         \o OrphanIndices(faces, visible_seq, v + 1)

\* Those of them a new face evaluates: not assigned, and not yet checked, that
\* is, at their first occurrence.
Unchecked(orphans, assigned) ==
    LET first == SelectSeq([ j \in 1..Len(orphans) |-> j ],
                    LAMBDA j : /\ orphans[j] \notin assigned
                               /\ \A i \in 1..(j - 1) : orphans[i] # orphans[j])
    IN  [ j \in 1..Len(first) |-> orphans[first[j]] ]

\* sort_by on the position, ascending and stable.
RECURSIVE SortByPosition(_)
SortByPosition(s) ==
    IF Len(s) <= 1 THEN s
    ELSE LET front == SortByPosition(SubSeq(s, 1, Len(s) - 1))
             e == s[Len(s)]
             before == SelectSeq(front, LAMBDA x : x[2] <= e[2])
             after == SelectSeq(front, LAMBDA x : x[2] > e[2])
         IN  before \o << e >> \o after

\* The entries pushed onto one new face for the evaluated orphans, in order.
PushedEntries(pts, face, evaluated) ==
    SelectSeq([ j \in 1..Len(evaluated) |->
                  << evaluated[j], position_from_face(pts, face, evaluated[j]) >> ],
              LAMBDA e : e[2] > 0)

\* [panic, faces].  An orphan index that is no index of the point array makes
\* position_from_face panic on the first new face, after the entries of the
\* orphans before it were pushed.
RECURSIVE RedistributeFrom(_, _, _, _, _)
RedistributeFrom(pts, faces, evaluated, new_keys, n) ==
    IF n > Len(new_keys) THEN [ panic |-> FALSE, faces |-> faces ]
    ELSE LET bad == { j \in 1..Len(evaluated) : ~InRange(pts, evaluated[j]) }
             new_face == faces[new_keys[n]]
         IN  IF bad # {}
             THEN [ panic |-> TRUE,
                    faces |-> [ faces EXCEPT ![new_keys[n]].outside_points =
                        PushedEntries(pts, new_face,
                            SubSeq(evaluated, 1, MinOf(bad) - 1)) ] ]
             ELSE RedistributeFrom(pts,
                    [ faces EXCEPT ![new_keys[n]].outside_points =
                        SortByPosition(@ \o PushedEntries(pts, new_face, evaluated)) ],
                    evaluated, new_keys, n + 1)

\* swap_remove that removes nothing.
swap_remove_kept(s, i) == s

\* Vec::swap_remove at 1-based position i: the last element takes the place.
swap_remove(s, i) ==
    [ j \in 1..(Len(s) - 1) |-> IF j = i THEN s[Len(s)] ELSE s[j] ]

\* [panic, faces]: the visible face is taken off the neighbour list of each of
\* its neighbours.  A neighbour that is gone, or that does not list the face,
\* is an unwrap of None.
RECURSIVE UnlinkFrom(_, _, _, _)
UnlinkFrom(faces, visible, neighbors, n) ==
    IF n > Len(neighbors) THEN [ panic |-> FALSE, faces |-> faces ]
    ELSE LET neighbor_key == neighbors[n]
             at == IF neighbor_key \in DOMAIN faces
                   THEN { i \in 1..Len(faces[neighbor_key].neighbor_faces) :
                            faces[neighbor_key].neighbor_faces[i] = visible }
                   ELSE {}
         IN  IF at = {} THEN [ panic |-> TRUE, faces |-> faces ]
             ELSE UnlinkFrom(
                    [ faces EXCEPT ![neighbor_key].neighbor_faces = swap_remove(@, MinOf(at)) ],
                    visible, neighbors, n + 1)

RECURSIVE DeleteFrom(_, _, _)
DeleteFrom(faces, visible_seq, v) ==
    IF v > Len(visible_seq) THEN [ panic |-> FALSE, faces |-> faces ]
    ELSE LET visible == visible_seq[v]
             r == UnlinkFrom(faces, visible, faces[visible].neighbor_faces, 1)
         IN  IF r.panic THEN r
             ELSE DeleteFrom([ k \in DOMAIN r.faces \ {visible} |-> r.faces[k] ],
                             visible_seq, v + 1)

\* ------------------------------------------------ update: one iteration
\* The face the loop head finds and the apex it takes from it.
SelectedKey(faces) == MinOf(ConflictKeys(faces))

\* The last entry of the selected face's conflict list.
SelectedApex(faces) ==
    LET list == faces[SelectedKey(faces)].outside_points
    IN  list[Len(list)][1]

Outcome(status, err, faces, assigned, face_add_count) ==
    [ status |-> status, err |-> err, faces |-> faces,
      assigned |-> assigned, face_add_count |-> face_add_count ]

\* The body of the main loop, from the selection of the apex to the deletion of
\* the visible faces, under the hash order `seed`, as a chain with one link per
\* step of the code; each link is handed what the steps before it computed.
\* status is "ok", "err" (an early return of Err) or "panic"; the other fields
\* are what the hull and the locals of update hold at that point.
DeleteStep(fan, del) ==
    Outcome(IF del.panic THEN "panic" ELSE "ok", "",
            del.faces, fan.assigned, fan.face_add_count)

RedistributeStep(visible_seq, fan, red) ==
    IF red.panic
    THEN Outcome("panic", "", red.faces, fan.assigned, fan.face_add_count)
    ELSE DeleteStep(fan, DeleteFrom(red.faces, visible_seq, 1))

OrientStep(pts, visible_seq, fan, orient) ==
    IF orient.err # ""
    THEN Outcome("err", orient.err, orient.faces, fan.assigned, fan.face_add_count)
    ELSE RedistributeStep(visible_seq, fan,
            RedistributeFrom(pts, orient.faces,
                Unchecked(OrphanIndices(orient.faces, visible_seq, 1), fan.assigned),
                fan.new_keys, 1))

LinkStep(pts, seed, visible_seq, fan, link) ==
    IF link.err # ""
    THEN Outcome("err", link.err, link.faces, fan.assigned, fan.face_add_count)
    ELSE OrientStep(pts, visible_seq, fan,
            OrientFrom(pts, link.faces, HashOrder(fan.assigned, seed), fan.new_keys, 1))

FanStep(pts, seed, visible_seq, fan) ==
    IF Len(fan.new_keys) < 3
    THEN Outcome("err", RoundOff("number of new faces should be grater than 3"),
                 fan.faces, fan.assigned, fan.face_add_count)
    ELSE LinkStep(pts, seed, visible_seq, fan, LinkFrom(fan.faces, fan.new_keys, 1))

HorizonStep(pts, faces, assigned, face_add_count, seed, apex, visible_seq, hz) ==
    IF hz.err # ""
    THEN Outcome("err", hz.err, faces, assigned, face_add_count)
    ELSE FanStep(pts, seed, visible_seq,
            FanFrom(pts, apex, hz.horizon, 1,
                [ faces |-> faces, assigned |-> assigned,
                  face_add_count |-> face_add_count, new_keys |-> <<>> ]))

VisibleStep(pts, faces, assigned, face_add_count, seed, apex, visible_set) ==
    HorizonStep(pts, faces, assigned, face_add_count, seed, apex,
                HashOrder(visible_set, seed), compute_horizon(visible_set, faces, seed))

ApexStep(pts, faces, assigned, face_add_count, seed, key, apex) ==
    IF ~InRange(pts, apex) /\ faces[key].neighbor_faces # <<>>
    THEN Outcome("panic", "", faces, assigned, face_add_count)
    ELSE VisibleStep(pts, faces, assigned, face_add_count, seed, apex,
                     initialize_visible_set(pts, apex, faces, key))

Iteration(pts, faces, assigned, face_add_count, seed) ==
    ApexStep(pts, faces, assigned, face_add_count, seed,
             SelectedKey(faces), SelectedApex(faces))

\* --------------------------------------------------- update: after the loop
is_convex(pts, faces) ==
    \E k \in DOMAIN faces : position_from_face(pts, faces[k], 0) <= 0

\* ---------------------------------------------------- remove_unused_points
\* The referenced point indices in ascending order; position j (0-based) of
\* that order is the new index of the point.
\* UsedIndices in descending order.
UsedIndicesDescending(faces) == Reverse(SortedSeq(FaceVertices(faces)))

UsedIndices(faces) == SortedSeq(FaceVertices(faces))

NewIndex(used, old) == (CHOOSE j \in 1..Len(used) : used[j] = old) - 1

\* remove_unused_points that keeps every point.
keep_all_points(pts, faces) == [ points |-> pts, faces |-> faces ]

\* [points, faces]: only the index triples of the faces are rewritten.
remove_unused_points(pts, faces) ==
    LET used == UsedIndices(faces)
    IN  [ points |-> [ j \in 1..Len(used) |-> Pt(pts, used[j]) ],
          faces |-> [ k \in DOMAIN faces |->
                        [ faces[k] EXCEPT !.indices =
                            [ j \in 1..Len(@) |-> NewIndex(used, @[j]) ] ] ] ]

\* -------------------------------------------------------- vertices_indices
\* FlatIndices that loses the face with the lowest key.
RECURSIVE FlatIndicesFromSecond(_, _)
FlatIndicesFromSecond(faces, keys) ==
    IF Len(keys) <= 1 THEN <<>>
    ELSE faces[keys[Len(keys)]].indices
         \o FlatIndicesFromSecond(faces, SubSeq(keys, 1, Len(keys) - 1))

RECURSIVE FlatIndices(_, _)
FlatIndices(faces, keys) ==
    IF keys = <<>> THEN <<>>
    ELSE faces[keys[1]].indices \o FlatIndices(faces, Tail(keys))

vertices_indices(pts, faces) ==
    << pts, FlatIndices(faces, SortedSeq(DOMAIN faces)) >>

\* ------------------------------------------------------------------ volume
Det3(u, v, w) == Dot(u, Cross(v, w))

\* determinant with the sign of every term turned.
determinant_negated(a, b, c, r) ==
    Det3(b, c, r) - Det3(a, c, r) + Det3(a, b, r) - Det3(a, b, c)

\* DMat4::determinant of the matrix with the columns (a, 1), (b, 1), (c, 1) and
\* (r, 1), expanded along its row of ones.  On integers of this size the f64
\* products and sums are exact.
determinant(a, b, c, r) ==
    (0 - Det3(b, c, r)) + Det3(a, c, r) - Det3(a, b, r) + Det3(a, b, c)

\* The sum of the clamped determinants of the triples from flat position i
\* (0-based) on, with the reference point hull_vertices[hull_indices[0]].
RECURSIVE VolumeFrom(_, _, _)
VolumeFrom(hull_vertices, hull_indices, i) ==
    IF i >= Len(hull_indices) THEN 0
    ELSE LET d == determinant(Pt(hull_vertices, hull_indices[i + 1]),
                              Pt(hull_vertices, hull_indices[i + 2]),
                              Pt(hull_vertices, hull_indices[i + 3]),
                              Pt(hull_vertices, hull_indices[1]))
         IN  (IF d > 0 THEN d ELSE 0) + VolumeFrom(hull_vertices, hull_indices, i + 3)

\* volume / 6.0 as an f64.
VolumeOf(vi) == FDiv(FFromInt(VolumeFrom(vi[1], vi[2], 3)), FFromInt(6))

volume(pts, faces) == VolumeOf(vertices_indices(pts, faces))

\* ----------------------------------------------------------- support_point
\* SupportFrom in which a later point that reaches the maximum replaces it.
RECURSIVE SupportFromLastWins(_, _, _, _)
SupportFromLastWins(pts, direction, i, st) ==
    IF i >= Len(pts) THEN st
    ELSE SupportFromLastWins(pts, direction, i + 1,
            IF Dot(Pt(pts, i), direction) >= st.max
            THEN [ max |-> Dot(Pt(pts, i), direction), index |-> i ]
            ELSE st)

RECURSIVE SupportFrom(_, _, _, _)
SupportFrom(pts, direction, i, st) ==
    IF i >= Len(pts) THEN st
    ELSE SupportFrom(pts, direction, i + 1,
            IF Dot(Pt(pts, i), direction) > st.max
            THEN [ max |-> Dot(Pt(pts, i), direction), index |-> i ]
            ELSE st)

support_point(pts, direction) ==
    Pt(pts, SupportFrom(pts, direction, 1,
                [ max |-> Dot(Pt(pts, 0), direction), index |-> 0 ]).index)

\* The directions support_point is asked for.
Directions == { <<1, 1, 1>>, <<1, 0, 0>>, <<0, -1, 0>>, <<0, 0, 0>> }

\* ------------------------------------------------------------------ state
VARIABLES
    pc,             \* "idle", "loop" (at the head of update's loop), "done" (Ok), "err", "panic",
                    \* "dropped" (the hull was moved into a call that consumed it)
    op,             \* the call in progress or last made: "try_new" or "add_points"
    input,          \* the point slice handed to try_new
    max_iter,       \* try_new's max_iter: <<>> for None, <<k>> for Some(k)
    cap,            \* the max_iter of the update in progress
    points,         \* ConvexHull.points
    faces,          \* ConvexHull.faces: face key -> Face
    assigned,       \* update's assigned_point_indices
    face_add_count, \* update's face_add_count
    num_iter,       \* update's num_iter
    err,            \* the ErrorKind returned, "" when none
    stages,         \* the routines the call in progress has entered, in order
    adds,           \* add_points calls made so far
    more,           \* the batch handed to the last add_points
    before,         \* the hull's points when the last add_points was called
    prev,           \* <<>>, or the outcome of an earlier try_new, its result first
    issued,         \* the keys under which faces were inserted into the hull, in order
    answer          \* <<>>, or the last query made on the hull and what it returned

vars == << pc, op, input, max_iter, cap, points, faces, assigned, face_add_count,
           num_iter, err, stages, adds, more, before, prev, issued, answer >>

Inputs == UNION { [ 1..n -> Pool ] : n \in 0..MaxPts } \cup Shapes

Caps == { <<>> } \cup { << k >> : k \in 0..MaxCap }

Seeds == 0..(NumSeeds - 1)

NoFaces == [ k \in {} |-> k ]

Init ==
    /\ pc = "idle"
    /\ op = "try_new"
    /\ input = <<>>
    /\ max_iter = <<>>
    /\ cap = <<>>
    /\ points = <<>>
    /\ faces = NoFaces
    /\ assigned = {}
    /\ face_add_count = 0
    /\ num_iter = 0
    /\ err = ""
    /\ stages = <<>>
    /\ adds = 0
    /\ more = <<>>
    /\ before = <<>>
    /\ prev = <<>>
    /\ issued = <<>>
    /\ answer = <<>>

\* ---------------------------------------------------------------- try_new
\* try_new up to the call of update: [err, stages, faces].
AfterTetrahedron(r) ==
    IF r.err # ""
    THEN [ err |-> r.err,
           stages |-> << "compute_extremes", "init_tetrahedron_indices" >>,
           faces |-> NoFaces ]
    ELSE [ err |-> "",
           stages |-> << "compute_extremes", "init_tetrahedron_indices",
                         "init_tetrahedron" >>,
           faces |-> r.faces ]

\* try_new_begin with the second gate at fewer than three points.
try_new_begin_gate_below_3(pts) ==
    IF Len(pts) = 0 THEN [ err |-> "Empty", stages |-> <<>>, faces |-> NoFaces ]
    ELSE IF Len(pts) < 3 THEN [ err |-> "Degenerated", stages |-> <<>>, faces |-> NoFaces ]
    ELSE AfterTetrahedron(init_tetrahedron(pts))

try_new_begin(pts) ==
    IF Len(pts) = 0 THEN [ err |-> "Empty", stages |-> <<>>, faces |-> NoFaces ]
    ELSE IF Len(pts) <= 3 THEN [ err |-> "Degenerated", stages |-> <<>>, faces |-> NoFaces ]
    ELSE AfterTetrahedron(init_tetrahedron(pts))

\* update, from its entry to the head of the main loop.
UpdateBegin(pts, fs, max) ==
    /\ assigned' = FaceVertices(fs)
    /\ faces' = seed_outside_points(pts, fs, FaceVertices(fs))
    /\ face_add_count' = MaxOf(DOMAIN fs) + 1
    /\ num_iter' = 0
    /\ cap' = max
    /\ points' = pts
    /\ pc' = "loop"
    /\ err' = ""

\* An Err returned by try_new: the hull under construction is dropped.
Fail(e) ==
    /\ pc' = "err"
    /\ err' = e
    /\ points' = <<>>
    /\ faces' = NoFaces
    /\ assigned' = {}
    /\ UNCHANGED << face_add_count, num_iter, cap >>

\* try_new(pts, max), up to the head of update's main loop.
TryNewWith(pts, max, r) ==
    /\ IF r.err # "" THEN Fail(r.err) ELSE UpdateBegin(pts, r.faces, max)
    /\ stages' = IF r.err # "" THEN r.stages ELSE Append(r.stages, "update")

TryNewCall(pts, max) ==
    /\ TryNewWith(pts, max, try_new_begin(pts))
    /\ input' = pts
    /\ max_iter' = max
    /\ op' = "try_new"
    /\ issued' = SortedSeq(DOMAIN faces')
    /\ UNCHANGED << adds, more, before, answer >>

TryNew ==
    /\ pc = "idle"
    /\ \E pts \in Inputs, max \in Caps : TryNewCall(pts, max)
    /\ UNCHANGED prev

\* ------------------------------------------------------ update's main loop
\* CapReached that never stops the loop.
CapIgnored == FALSE

CapReached == cap # <<>> /\ num_iter >= cap[1]

LoopRuns == ConflictKeys(faces) # {} /\ ~CapReached

\* One iteration of the main loop.  An Err or a panic inside try_new drops the
\* hull; inside add_points the caller's hull stays as the iteration left it.
IterateWith(r) ==
    /\ issued' = issued \o [ j \in 1..(r.face_add_count - face_add_count) |->
                                face_add_count + j - 1 ]
    /\ IF r.status # "ok" /\ op = "try_new"
       THEN /\ pc' = r.status
            /\ err' = r.err
            /\ points' = <<>>
            /\ faces' = NoFaces
            /\ assigned' = {}
            /\ UNCHANGED face_add_count
       ELSE /\ pc' = IF r.status = "ok" THEN "loop" ELSE r.status
            /\ err' = r.err
            /\ faces' = r.faces
            /\ assigned' = r.assigned
            /\ face_add_count' = r.face_add_count
            /\ UNCHANGED points

Iterate ==
    /\ pc = "loop"
    /\ LoopRuns
    /\ \E seed \in Seeds :
         IterateWith(Iteration(points, faces, assigned, face_add_count, seed))
    /\ num_iter' = num_iter + 1
    /\ UNCHANGED << op, input, max_iter, cap, stages, adds, more, before, prev, answer >>

\* The loop ends; update checks is_convex; the caller compacts the points and
\* checks that more than three are left.
FinishWith(r) ==
    IF ~is_convex(points, faces)
    THEN /\ pc' = "err"
         /\ err' = RoundOff("concave")
         /\ stages' = stages
         /\ IF op = "try_new"
            THEN points' = <<>> /\ faces' = NoFaces
            ELSE UNCHANGED << points, faces >>
    ELSE /\ stages' = Append(stages, "remove_unused_points")
         /\ IF Len(r.points) <= 3
            THEN /\ pc' = "err"
                 /\ err' = "Degenerated"
                 /\ IF op = "try_new"
                    THEN points' = <<>> /\ faces' = NoFaces
                    ELSE points' = r.points /\ faces' = r.faces
            ELSE /\ pc' = "done"
                 /\ err' = ""
                 /\ points' = r.points
                 /\ faces' = r.faces

Finish ==
    /\ pc = "loop"
    /\ ~LoopRuns
    /\ FinishWith(remove_unused_points(points, faces))
    /\ UNCHANGED << op, input, max_iter, cap, assigned, face_add_count, num_iter,
                    adds, more, before, prev, issued, answer >>

\* ------------------------------------------------------------- add_points
AddPoints ==
    /\ pc = "done"
    /\ adds < MaxAdds
    /\ \E m \in MorePool :
         /\ more' = m
         /\ UpdateBegin(points \o m, faces, <<>>)
    /\ before' = points
    /\ op' = "add_points"
    /\ adds' = adds + 1
    /\ stages' = << "update" >>
    /\ UNCHANGED << input, max_iter, prev, issued, answer >>

\* ------------------------------------------------------------ a second run
\* try_new is called again on the same slice with the same max_iter; the first
\* result is kept for comparison.
Rerun ==
    /\ pc = "done"
    /\ op = "try_new"
    /\ prev = <<>>
    /\ prev' = << vertices_indices(points, faces) >>
    /\ TryNewCall(input, max_iter)

\* ---------------------------------------------- a run on translated input
\* The vectors inputs are translated by, and the one of octahedron_translation_test.
Shifts == { <<5, 5, -4>> }

TestShift == <<10, 10, 10>>

ShiftsOf(pts) == IF pts = Octahedron THEN Shifts \cup { TestShift } ELSE Shifts

Translate(pts, t) ==
    [ i \in 1..Len(pts) |-> << pts[i][1] + t[1], pts[i][2] + t[2], pts[i][3] + t[3] >> ]

\* Iterate under the one hash order 0, so that two runs differ in nothing but
\* their input.
IterateInOrder ==
    /\ pc = "loop"
    /\ LoopRuns
    /\ IterateWith(Iteration(points, faces, assigned, face_add_count, 0))
    /\ num_iter' = num_iter + 1
    /\ UNCHANGED << op, input, max_iter, cap, stages, adds, more, before, prev, answer >>

\* try_new has returned, Ok or Err; it is called again with every point moved
\* by the same vector and the same max_iter; the first outcome is kept.
Retranslate ==
    /\ pc \in { "done", "err" }
    /\ op = "try_new"
    /\ prev = <<>>
    /\ prev' = << vertices_indices(points, faces), pc, err >>
    /\ \E t \in ShiftsOf(input) : TryNewCall(Translate(input, t), max_iter)

\* ------------------------------------------------------------------ queries
\* volume(self) consumes the hull; points and faces stay as they were handed over.
Volume ==
    /\ pc = "done"
    /\ pc' = "dropped"
    /\ answer' = << "volume", volume(points, faces) >>
    /\ UNCHANGED << op, input, max_iter, cap, points, faces, assigned, face_add_count,
                    num_iter, err, stages, adds, more, before, prev, issued >>

\* support_point(&self, direction).
SupportPoint ==
    /\ pc = "done"
    /\ \E direction \in Directions :
         answer' = << "support_point", direction, support_point(points, direction) >>
    /\ UNCHANGED << pc, op, input, max_iter, cap, points, faces, assigned, face_add_count,
                    num_iter, err, stages, adds, more, before, prev, issued >>

Next == TryNew \/ Iterate \/ Finish \/ AddPoints

Spec == Init /\ [][Next]_vars

NextTwoRuns == TryNew \/ Iterate \/ Finish \/ Rerun

SpecTwoRuns == Init /\ [][NextTwoRuns]_vars

NextQueries == TryNew \/ Iterate \/ Finish \/ Volume \/ SupportPoint

SpecQueries == Init /\ [][NextQueries]_vars

NextTranslated == TryNew \/ IterateInOrder \/ Finish \/ Retranslate

SpecTranslated == Init /\ [][NextTranslated]_vars

\* ------------------------------------ an iteration on a malformed face set
\* compute_horizon's checks do not fail on the hulls try_new builds from the
\* inputs above.  To exercise them, update's loop is also entered on a face set
\* handed in directly: the seeded tetrahedron of BeyondEdge with up to two
\* faults, each an index of a face overwritten or a face's first two indices
\* swapped.
Faults ==
    { << "set", k, j, v >> : k \in 0..3, j \in 1..3, v \in 0..3 }
        \cup { << "swap", k, 1, 0 >> : k \in 0..3 }

Faulty(fs, f) ==
    IF f[1] = "set"
    THEN [ fs EXCEPT ![f[2]].indices[f[3]] = f[4] ]
    ELSE [ fs EXCEPT ![f[2]].indices = << @[2], @[1], @[3] >> ]

SeededTetrahedron ==
    seed_outside_points(BeyondEdge, try_new_begin(BeyondEdge).faces, 0..3)

MalformedInit ==
    /\ pc = "loop"
    /\ op \in { "try_new", "add_points" }
    /\ input = BeyondEdge
    /\ max_iter = <<>>
    /\ cap = <<>>
    /\ points = BeyondEdge
    /\ \E f \in Faults, g \in Faults :
          faces = Faulty(Faulty(SeededTetrahedron, f), g)
    /\ assigned = 0..3
    /\ face_add_count = 4
    /\ num_iter = 0
    /\ err = ""
    /\ stages = << "update" >>
    /\ adds = MaxAdds
    /\ more = <<>>
    /\ before = <<>>
    /\ prev = <<>>
    /\ issued = << 0, 1, 2, 3 >>
    /\ answer = <<>>

SpecMalformed == (Init \/ MalformedInit) /\ [][Next]_vars

\* ------------------------------------------------------------- properties
\* try_new has returned Ok(hull).
Built == pc = "done" /\ op = "try_new"

\* The signed position of the coordinates p relative to a face.
SignedPosition(pts, face, p) ==
    0 - orient3d(Pt(pts, face.indices[1]), Pt(pts, face.indices[2]),
                 Pt(pts, face.indices[3]), p)

FaceEdges(face) ==
    { { face.indices[1], face.indices[2] },
      { face.indices[2], face.indices[3] },
      { face.indices[1], face.indices[3] } }

MeshEdges(fs) == UNION { FaceEdges(fs[k]) : k \in DOMAIN fs }

FacesOnEdge(fs, e) == { k \in DOMAIN fs : e \in FaceEdges(fs[k]) }

ClosedMesh(fs) ==
    /\ \A k \in DOMAIN fs :
         /\ Len(fs[k].neighbor_faces) = 3
         /\ Range(fs[k].neighbor_faces) \subseteq DOMAIN fs
    /\ \A k \in DOMAIN fs : \A g \in DOMAIN fs :
         (g \in Range(fs[k].neighbor_faces)) <=> (k \in Range(fs[g].neighbor_faces))
    /\ \A e \in MeshEdges(fs) : Cardinality(FacesOnEdge(fs, e)) = 2

\* C1 (Containment): whenever try_new(points, None) returns Ok(hull), no input
\* point lies strictly on the outward side of a face of the hull.
C1_Containment ==
    (Built /\ max_iter = <<>>) =>
        \A i \in 1..Len(input) : \A k \in DOMAIN faces :
            SignedPosition(points, faces[k], input[i]) <= 0

\* try_new(_, None) returned a hull that took at least two iterations to build
\* and that leaves an input point strictly inside.
C1_Witness ==
    /\ Built
    /\ max_iter = <<>>
    /\ num_iter >= 2
    /\ \E i \in 1..Len(input) : \A k \in DOMAIN faces :
         SignedPosition(points, faces[k], input[i]) < 0

Euler == Len(points) - Cardinality(MeshEdges(faces)) + Cardinality(DOMAIN faces)

\* C4 (Euler characteristic): every hull try_new returns has V - E + F = 2,
\* 2V - 4 faces and 3(2V - 4) indices from vertices_indices; the cube gives
\* 12 faces and 36 indices, the octahedron 8 faces and 24 indices.
C4_Euler ==
    Built =>
        /\ Euler = 2
        /\ Cardinality(DOMAIN faces) = 2 * Len(points) - 4
        /\ Len(vertices_indices(points, faces)[2]) = 3 * (2 * Len(points) - 4)
        /\ (input = Cube /\ max_iter = <<>>) =>
               Len(vertices_indices(points, faces)[2]) = 36
        /\ (input = Octahedron /\ max_iter = <<>>) =>
               Len(vertices_indices(points, faces)[2]) = 24

\* try_new(Cube, None) returned its hull of 8 vertices and 12 faces.
C4_Witness ==
    /\ Built
    /\ input = Cube
    /\ max_iter = <<>>
    /\ Len(points) = 8
    /\ Cardinality(DOMAIN faces) = 12

\* C5 (Size gate): try_new returns Err(Empty) for no points and
\* Err(Degenerated) for 1, 2 or 3 points whatever their coordinates, before
\* any extreme search, simplex construction or predicate evaluation.
C5_SizeGate ==
    (op = "try_new" /\ pc # "idle") =>
        /\ Len(input) = 0 => (pc = "err" /\ err = "Empty" /\ stages = <<>>)
        /\ Len(input) \in 1..3 =>
               (pc = "err" /\ err = "Degenerated" /\ stages = <<>>)

\* try_new has rejected three coincident points.
C5_Witness ==
    /\ pc = "err"
    /\ err = "Degenerated"
    /\ Len(input) = 3
    /\ input[1] = input[2]
    /\ input[2] = input[3]

\* The exact geometry of a point sequence.
AllEqual(pts) == \A i \in 1..Len(pts) : pts[i] = pts[1]

CollinearWith(a, b, p) == Cross(Sub(b, a), Sub(p, a)) = <<0, 0, 0>>

AllCollinear(pts) ==
    \A i \in 1..Len(pts) : \A j \in 1..Len(pts) : \A k \in 1..Len(pts) :
        CollinearWith(pts[i], pts[j], pts[k])

AllCoplanar(pts) ==
    \A i \in 1..Len(pts) : \A j \in 1..Len(pts) :
        \A k \in 1..Len(pts) : \A l \in 1..Len(pts) :
            orient3d(pts[i], pts[j], pts[k], pts[l]) = 0

\* C6 (Degenerate-input classification): for 4 or more points try_new fails
\* with Coincident when all points are equal, with Collinear when they are not
\* all equal but on one line, and with Coplanar when they are not all on one
\* line but in one plane.
C6_Classification ==
    (op = "try_new" /\ pc # "idle" /\ Len(input) >= 4) =>
        /\ AllEqual(input) => (pc = "err" /\ err = "Coincident")
        /\ (~AllEqual(input) /\ AllCollinear(input)) =>
               (pc = "err" /\ err = "Collinear")
        /\ (~AllCollinear(input) /\ AllCoplanar(input)) =>
               (pc = "err" /\ err = "Coplanar")

\* The point array holds exactly the points a face refers to.
Compacted(pts, fs) == FaceVertices(fs) = 0..(Len(pts) - 1)

\* C7 (Strict error propagation): an error inside try_new or add_points is
\* returned and the caller holds no partially built hull; when add_points
\* returns Err the hull has no appended but unprocessed points, no faces of an
\* unfinished iteration and no uncompacted point array.
C7_ErrorPropagation ==
    /\ (op = "try_new" /\ pc = "err") => (faces = NoFaces /\ points = <<>>)
    /\ (op = "add_points" /\ pc = "err") =>
           (ClosedMesh(faces) /\ Compacted(points, faces))

\* C8 (Iteration cap): with max_iter = Some(k) the loop runs at most k times,
\* k = 0 leaves the four faces of the initial tetrahedron, stopping at the cap
\* is no error and the hull returned is a closed mesh; with None the loop runs
\* until no conflict list is left.
C8_IterationCap ==
    /\ (op = "try_new" /\ max_iter # <<>>) => num_iter <= max_iter[1]
    /\ (Built /\ max_iter = <<0>>) => DOMAIN faces = 0..3
    /\ (op = "try_new" /\ max_iter # <<>> /\ pc = "err") =>
           (\A i \in 1..Len(stages) : stages[i] # "update")
    /\ (Built /\ max_iter # <<>>) => ClosedMesh(faces)
    /\ (Built /\ max_iter = <<>>) => ConflictKeys(faces) = {}

\* try_new(_, Some(1)) returned Ok after one iteration with a conflict list
\* still not empty.
C8_Witness ==
    /\ Built
    /\ max_iter = <<1>>
    /\ num_iter = 1
    /\ ConflictKeys(faces) # {}

\* C9 (Determinism): two runs of try_new on the same point sequence with the
\* same max_iter return the same point array and the same index list from
\* vertices_indices, whatever the iteration order of the hash sets.
C9_Determinism ==
    (Built /\ prev # <<>>) => vertices_indices(points, faces) = prev[1]

\* C10 (AddPoints): when add_points(more) returns Ok on a hull built without
\* a cap, every vertex of the previous hull and every point of more has signed
\* position <= 0 relative to every face, the mesh is closed and the point
\* array holds exactly the points referenced by a face.
C10_AddPoints ==
    (op = "add_points" /\ pc = "done" /\ max_iter = <<>>) =>
        /\ \A i \in 1..Len(before) : \A k \in DOMAIN faces :
               SignedPosition(points, faces[k], before[i]) <= 0
        /\ \A i \in 1..Len(more) : \A k \in DOMAIN faces :
               SignedPosition(points, faces[k], more[i]) <= 0
        /\ ClosedMesh(faces)
        /\ Compacted(points, faces)

\* add_points returned Ok on an uncapped hull after an iteration that made the
\* added point a vertex.
C10_Witness ==
    /\ op = "add_points"
    /\ pc = "done"
    /\ max_iter = <<>>
    /\ num_iter >= 1
    /\ Len(more) = 1
    /\ more[1] \in Range(points)
    /\ more[1] \notin Range(before)

\* C11 (vertices_indices): for every hull try_new or add_points returns, the
\* first component of vertices_indices is the hull's point array and the second
\* is the concatenation, in ascending key order, of the faces' index triples:
\* it has three indices per face, every index is a position of the point array
\* and every position of the point array occurs in it.
C11_VerticesIndices ==
    pc = "done" =>
        LET vi == vertices_indices(points, faces)
            keys == SortedSeq(DOMAIN faces)
        IN  /\ vi[1] = points
            /\ Len(vi[2]) = 3 * Cardinality(DOMAIN faces)
            /\ \A n \in 1..Len(keys) : \A j \in 1..3 :
                   vi[2][3 * (n - 1) + j] = faces[keys[n]].indices[j]
            /\ \A n \in 1..Len(vi[2]) : vi[2][n] \in 0..(Len(vi[1]) - 1)
            /\ \A i \in 0..(Len(vi[1]) - 1) : \E n \in 1..Len(vi[2]) : vi[2][n] = i

\* A returned hull whose face keys have gaps and that dropped an input point.
C11_Witness ==
    /\ pc = "done"
    /\ Len(points) < Len(input)
    /\ Len(points) >= 5
    /\ DOMAIN faces # 0..(Cardinality(DOMAIN faces) - 1)
    /\ Len(vertices_indices(points, faces)[2]) >= 18

\* try_new has returned for the second time, on the translated input.
SecondOutcome == op = "try_new" /\ prev # <<>> /\ pc \in { "done", "err" }

\* C12 (Translation invariance): try_new on an input and on the same input with
\* every point translated by one vector end alike: both Ok or both the same
\* error, the same number of hull vertices, the same number of faces and the
\* same face index triples; the translated octahedron has 8 faces.
C12_Translation ==
    SecondOutcome =>
        /\ pc = prev[2]
        /\ err = prev[3]
        /\ Len(points) = Len(prev[1][1])
        /\ Cardinality(DOMAIN faces) * 3 = Len(prev[1][2])
        /\ vertices_indices(points, faces)[2] = prev[1][2]
        /\ (input = Translate(Octahedron, TestShift) /\ max_iter = <<>>) =>
               Cardinality(DOMAIN faces) = 8

\* Six times the volume of the polytope the faces bound: the tetrahedra from
\* the last point of the array to every face.
SixVolumes(pts, fs) ==
    LET Term(k) == Abs(orient3d(Pt(pts, fs[k].indices[1]), Pt(pts, fs[k].indices[2]),
                                Pt(pts, fs[k].indices[3]), Pt(pts, Len(pts) - 1)))
        Sum[S \in SUBSET DOMAIN fs] ==
            IF S = {} THEN 0
            ELSE LET k == CHOOSE x \in S : TRUE IN Term(k) + Sum[S \ {k}]
    IN  Sum[DOMAIN fs]

\* The determinant volume() computes for face k of the hull held.
VolumeTerm(k) ==
    LET ref == faces[MinOf(DOMAIN faces)].indices[1]
    IN  determinant(Pt(points, faces[k].indices[1]), Pt(points, faces[k].indices[2]),
                    Pt(points, faces[k].indices[3]), Pt(points, ref))

C14_SupportPoint ==
    [][ (pc = "done" /\ pc' = "done" /\ answer' # answer) =>
            /\ points' = points
            /\ faces' = faces
            /\ \E i \in 0..(Len(points) - 1) :
                   /\ answer'[3] = Pt(points, i)
                   /\ \A j \in 0..(Len(points) - 1) :
                          Dot(Pt(points, j), answer'[2]) <= Dot(Pt(points, i), answer'[2])
                   /\ \A j \in 0..(i - 1) :
                          Dot(Pt(points, j), answer'[2]) < Dot(Pt(points, i), answer'[2])
      ]_vars

\* support_point was asked for a direction in which four corners of the cube
\* tie and returned the first of them, which is not the first point.
C14_Witness ==
    /\ pc = "done"
    /\ input = Cube
    /\ max_iter = <<>>
    /\ answer = << "support_point", <<0, -1, 0>>, <<1, -1, 1>> >>
    /\ points[3] = <<1, -1, 1>>

\* Point index i is on the conflict list of the face.
OnList(face, i) == \E j \in 1..Len(face.outside_points) : face.outside_points[j][1] = i

\* The faces of fs that list point index i.
ListedBy(fs, i) == { k \in DOMAIN fs : OnList(fs[k], i) }

\* The faces of fs that point index i is strictly in front of.
SeenBy(pts, fs, i) == { k \in DOMAIN fs : position_from_face(pts, fs[k], i) > 0 }

\* update stands at the head of its loop and has not iterated yet.
Seeded == pc = "loop" /\ num_iter = 0

\* C15 (Conflict-list seeding): after the seeding step of update every point
\* that is not a vertex of a starting face is on at most one conflict list,
\* that of the first face in key order that sees it, and on none when no face
\* sees it.
C15_Seeding ==
    (Seeded /\ op = "try_new") =>
        \A i \in (0..(Len(points) - 1)) \ FaceVertices(faces) :
            /\ Cardinality(ListedBy(faces, i)) <= 1
            /\ ListedBy(faces, i) =
                   IF SeenBy(points, faces, i) = {} THEN {}
                   ELSE { MinOf(SeenBy(points, faces, i)) }

\* The step is a completed iteration of update's loop.
IterationDone == pc = "loop" /\ pc' = "loop" /\ num_iter' = num_iter + 1

\* The orphans of the iteration: the indices on the conflict lists of the
\* faces it deleted that are not assigned.
Orphans ==
    { i \in 0..(Len(points) - 1) :
        /\ i \notin assigned'
        /\ \E v \in DOMAIN faces \ DOMAIN faces' : OnList(faces[v], i) }

\* The faces the iteration made.
NewFaces == [ k \in DOMAIN faces' \ DOMAIN faces |-> faces'[k] ]

\* C16 (Redistribution): in every iteration each orphaned point is attached to
\* at most one new face, the first in creation order that sees it, and to none
\* when no new face sees it; no assigned point is on a new face's list.
C16_Redistribution ==
    [][ (IterationDone /\ op = "try_new") =>
            /\ \A i \in Orphans :
                   /\ Cardinality(ListedBy(NewFaces, i)) <= 1
                   /\ ListedBy(NewFaces, i) =
                          IF SeenBy(points, NewFaces, i) = {} THEN {}
                          ELSE { MinOf(SeenBy(points, NewFaces, i)) }
            /\ \A i \in assigned' : ListedBy(NewFaces, i) = {}
      ]_vars

\* C17 (Apex selection): whenever the loop is about to run an iteration, the
\* last entry of the selected face's conflict list, the apex, has a stored
\* signed position not below that of any other entry of the list.
C17_Apex ==
    (pc = "loop" /\ LoopRuns /\ op = "try_new") =>
        LET list == faces[SelectedKey(faces)].outside_points
        IN  \A j \in 1..Len(list) : list[j][2] <= list[Len(list)][2]

\* Every entry (i, d) of every conflict list has i a point strictly in front of
\* the face, d its signed position, and i not a vertex of the face.
PositiveLists ==
    \A k \in DOMAIN faces : \A j \in 1..Len(faces[k].outside_points) :
        LET i == faces[k].outside_points[j][1]
            d == faces[k].outside_points[j][2]
        IN  /\ InRange(points, i)
            /\ position_from_face(points, faces[k], i) > 0
            /\ d = position_from_face(points, faces[k], i)
            /\ i \notin Range(faces[k].indices)

\* C18 (Conflict-list positivity): between the iterations of update, whether
\* try_new or add_points runs it, every entry (i, d) of every face's conflict
\* list has i a point strictly in front of the face, d its signed position,
\* and i not a vertex of the face.
C18_Positivity == pc = "loop" => PositiveLists

\* The visible set as the claim words it: the least set of faces that holds the
\* selected face and, with a face, each of its neighbours the apex is strictly
\* in front of.
RECURSIVE VisibleClosure(_, _)
VisibleClosure(apex, V) ==
    LET more_visible ==
            { h \in DOMAIN faces :
                /\ h \notin V
                /\ \E g \in V : h \in Range(faces[g].neighbor_faces)
                /\ position_from_face(points, faces[h], apex) > 0 }
    IN  IF more_visible = {} THEN V ELSE VisibleClosure(apex, V \cup more_visible)

Visible == VisibleClosure(SelectedApex(faces), { SelectedKey(faces) })

\* The pairs (G, H) of a visible face and a neighbour of it that is not visible.
HorizonPairs ==
    { gh \in Visible \X DOMAIN faces :
        gh[2] \in Range(faces[gh[1]].neighbor_faces) /\ gh[2] \notin Visible }

Shared(g, h) == Range(faces[g].indices) \cap Range(faces[h].indices)

\* The conditions under which the claim has compute_horizon fail.
HorizonMustFail ==
    \/ \E g \in Visible : Cardinality(Range(faces[g].indices)) # 3
    \/ \E gh \in HorizonPairs : Cardinality(Range(faces[gh[2]].indices)) # 3
    \/ \E gh \in HorizonPairs : Cardinality(Shared(gh[1], gh[2])) # 2
    \/ Cardinality(HorizonPairs) < 3

\* A horizon with exactly one entry for each pair: the ridge is the two shared
\* indices and the key is that of the outside neighbour.  An entry does not
\* name its visible face, so entries are counted against the pairs that have
\* the same ridge and the same outside neighbour.
ExactHorizon(horizon) ==
    /\ Len(horizon) = Cardinality(HorizonPairs)
    /\ \A gh \in HorizonPairs :
           Cardinality({ j \in 1..Len(horizon) :
                           /\ horizon[j][2] = gh[2]
                           /\ Len(horizon[j][1]) = 2
                           /\ Range(horizon[j][1]) = Shared(gh[1], gh[2]) })
             = Cardinality({ xy \in HorizonPairs :
                               /\ xy[2] = gh[2]
                               /\ Shared(xy[1], xy[2]) = Shared(gh[1], gh[2]) })

\* An iteration is about to run and its apex is a point of the hull.
IterationStarts == pc = "loop" /\ LoopRuns /\ InRange(points, SelectedApex(faces))

\* C19 (Horizon extraction): in every iteration initialize_visible_set returns
\* the selected face plus every face reached from it through neighbours the
\* apex is strictly in front of; under every hash order compute_horizon returns
\* exactly one (ridge, outside neighbour) entry for each pair of a visible face
\* and a neighbour that is not visible, the ridge being their two shared
\* indices; it returns a RoundOffError exactly when a visible or outside face
\* lacks three distinct vertices, a ridge lacks two, or fewer than 3 entries
\* result, and then the iteration creates no face and deletes none.
C19_Horizon ==
    [][ IterationStarts =>
          /\ initialize_visible_set(points, SelectedApex(faces), faces,
                                    SelectedKey(faces)) = Visible
          /\ \A seed \in Seeds :
                LET hz == compute_horizon(Visible, faces, seed)
                IN  IF HorizonMustFail
                    THEN hz.err \in { RoundOff("number of visible face's vertices should be 3"),
                                      RoundOff("number of unvisible face's vertices should be 3"),
                                      RoundOff("number of ridge's vertices should be 2"),
                                      RoundOff("horizon len < 3") }
                    ELSE hz.err = "" /\ ExactHorizon(hz.horizon)
          /\ HorizonMustFail =>
                /\ pc' = "err"
                /\ issued' = issued
                /\ op = "add_points" => faces' = faces
      ]_vars

\* The first iteration on BeyondEdge has run from the two visible faces 2 and
\* 3: its horizon had four entries and the fan has the four faces 4..7.
C19_Witness ==
    /\ pc = "loop"
    /\ op = "try_new"
    /\ input = BeyondEdge
    /\ num_iter = 1
    /\ DOMAIN faces = { 0, 1, 4, 5, 6, 7 }

\* C20 (Face keys): the keys given to faces, in the order they were given, are
\* strictly increasing: a new face's key is above every key given before, to
\* faces since deleted and in earlier runs of update on the same hull alike.
C20_FaceKeys ==
    \A i \in 1..Len(issued) : \A j \in 1..Len(issued) :
        i < j => issued[i] < issued[j]

\* try_new, without a cap, has deleted faces and made others; add_points has
\* re-entered update on that hull, which then has fewer faces than its largest
\* key plus one, and an iteration of that update has given out keys.
C20_Witness ==
    /\ op = "add_points"
    /\ pc = "loop"
    /\ max_iter = <<>>
    /\ num_iter = 1
    /\ Len(issued) >= 10
    /\ Cardinality(DOMAIN faces) < Len(issued)
    /\ issued[Len(issued)] = face_add_count - 1

\* The step ends a call with remove_unused_points applied and the hull kept.
Compacts ==
    /\ pc = "loop"
    /\ pc' \in { "done", "err" }
    /\ stages' = Append(stages, "remove_unused_points")
    /\ faces' # NoFaces

\* The number of referenced indices below i: the place of point i after
\* compaction, counted from 0.
PlaceOf(i) == Cardinality({ u \in FaceVertices(faces) : u < i })

\* C21 (Compaction): remove_unused_points keeps exactly the points some face
\* refers to, in ascending order of their old index; every vertex slot of every
\* face denotes the same coordinates as before; afterwards every face index is
\* below points.len() and every point is referred to; the face keys, neighbour
\* lists, normals and plane offsets are unchanged; and a second application
\* changes nothing.
C21_Compaction ==
    [][ Compacts =>
          /\ Len(points') = Cardinality(FaceVertices(faces))
          /\ \A i \in FaceVertices(faces) : Pt(points', PlaceOf(i)) = Pt(points, i)
          /\ DOMAIN faces' = DOMAIN faces
          /\ \A k \in DOMAIN faces :
                /\ Len(faces'[k].indices) = Len(faces[k].indices)
                /\ \A j \in 1..Len(faces[k].indices) :
                      /\ faces'[k].indices[j] < Len(points')
                      /\ Pt(points', faces'[k].indices[j]) = Pt(points, faces[k].indices[j])
                /\ faces'[k].neighbor_faces = faces[k].neighbor_faces
                /\ faces'[k].normal = faces[k].normal
                /\ faces'[k].distance_from_origin = faces[k].distance_from_origin
          /\ FaceVertices(faces') = 0..(Len(points') - 1)
          /\ remove_unused_points(points', faces') = [ points |-> points', faces |-> faces' ]
      ]_vars

\* try_new on the octahedron with its centre at index 0 has returned: the
\* centre is gone and every index has moved down by one.
C21_Witness ==
    /\ pc = "done"
    /\ op = "try_new"
    /\ input = CentredOctahedron
    /\ points = Octahedron

\* No point that update has assigned, as an apex or as a face vertex, is on a
\* conflict list.
UsedPointsOffLists ==
    \A k \in DOMAIN faces : \A i \in assigned : ~OnList(faces[k], i)

\* C22 (Termination without a cap): while update runs with max_iter = None,
\* the apex about to be taken was never an apex or a face vertex before, no
\* used point is on a conflict list, and the number of iterations made is at
\* most the number of points less 4; the loop ends with every list empty or
\* with an Err, never with a panic.
C22_Termination ==
    cap = <<>> =>
        /\ pc # "panic"
        /\ pc = "loop" =>
              /\ num_iter <= Len(points) - 4
              /\ UsedPointsOffLists
              /\ LoopRuns => SelectedApex(faces) \notin assigned

\* C23 (Conflict lists after compaction): when try_new returns a hull whose
\* loop the cap stopped, every entry (i, d) left on a conflict list has i an
\* index into the compacted points that denotes the point it was recorded for,
\* strictly in front of the face at signed position d; and an apex that a later
\* add_points takes is in range, is no face vertex, and is in front of the
\* selected face at its recorded position.
C23_ListsSurviveCompaction ==
    /\ (Built /\ max_iter # <<>>) =>
          \A k \in DOMAIN faces : \A j \in 1..Len(faces[k].outside_points) :
              LET i == faces[k].outside_points[j][1]
                  d == faces[k].outside_points[j][2]
              IN  /\ InRange(points, i)
                  /\ Pt(points, i) = Pt(input, i)
                  /\ position_from_face(points, faces[k], i) > 0
                  /\ d = position_from_face(points, faces[k], i)
    /\ (op = "add_points" /\ pc = "loop" /\ LoopRuns) =>
          LET key == SelectedKey(faces)
              list == faces[key].outside_points
              apex == SelectedApex(faces)
          IN  /\ InRange(points, apex)
              /\ apex \notin FaceVertices(faces)
              /\ list[Len(list)][2] = position_from_face(points, faces[key], apex)

=============================================================================
